---- MODULE Spec2Model ----
(***************************************************************************)
(* A model of ooni/utils/onion.py: the circuit-build controller            *)
(* (CustomCircuit), the Tor process supervisor (start_tor with write_torrc *)
(* and delete_files_or_dirs) and the initialization guard                  *)
(* (singleton_semaphore).                                                  *)
(*                                                                         *)
(* The reactor is single threaded: every handler runs to completion, so    *)
(* each handler is one action.  The Tor daemon, the control connection    *)
(* and the callers are the environment; their choices are drawn with \E.   *)
(***************************************************************************)
EXTENDS Integers, Sequences, FiniteSets, TLC

\* ------------------------------------------------------------------ bounds
\* Deferreds that callers hand to request_circuit_build.
MaxFut == 2
\* Circuit identifiers the daemon hands out.
MaxCirc == 3
\* Largest relay pool (state.relays) the caller seeds.
MaxPool == 4
\* Longest caller-supplied path.
MaxPath == 3
\* Calls of start_tor.
MaxAttempts == 2
\* Calls of singleton_semaphore.
MaxCallers == 3

Futures == 1..MaxFut
CircIds == 1..MaxCirc

\* self.state.entry_guards.values() and self.state.routers.values()
EntryGuards == {"guardA", "guardB"}
Routers == {"routerA", "routerB"}

\* The path argument of request_circuit_build: None, or a list of relays.
NoPath == [given |-> FALSE, hops |-> <<>>]
GivenPaths == UNION {[1..n -> Routers] : n \in 0..MaxPath}
PathArgs == {NoPath} \cup {[given |-> TRUE, hops |-> p] : p \in GivenPaths}

\* Relays of the seeded pool are numbered from the bottom of the list.
SeededPool(n) == [i \in 1..n |-> i]

VARIABLES
    \* ---- CustomCircuit
    waiting_circuits,   \* self.waiting_circuits: list of (circid, d)
    relays,             \* self.state.relays: the pool pop() draws from
    cmds,               \* build commands sent and not yet answered (FIFO)
    issued,             \* number of state.build_circuit calls so far
    nextId,             \* the daemon's next circuit identifier
    nextFut,            \* the next fresh Deferred a caller creates
    requested,          \* Deferreds for which a build command was issued
    callbacks,          \* per Deferred, the circuits d.callback was called with
    closed,             \* the session has been torn down
    early,              \* circuits not yet settled whose built or failed event
                        \* was dispatched before AppendWaiting had recorded them
    lastOp,             \* the handler that ran last, its inputs and outcome
    \* ---- start_tor
    fs,                 \* temporary paths that exist on disk
    attempts,           \* per start_tor call: its stage, delete list, result
    triggers,           \* 'before shutdown' triggers registered so far
    shutdown,           \* the reactor has run its shutdown triggers
    \* ---- singleton_semaphore
    calls,              \* per singleton_semaphore call: its stage and outcome
    only_once,          \* per call, the tokens of its DeferredSemaphore
    running,            \* initializer invocations in flight
    invoked             \* initializer invocations started so far

circVars == <<waiting_circuits, relays, cmds, issued, nextId, nextFut,
              requested, callbacks, closed, early, lastOp>>
startVars == <<fs, attempts, triggers, shutdown>>
guardVars == <<calls, only_once, running, invoked>>
vars == <<circVars, startVars, guardVars>>

\* ------------------------------------------------------------ CustomCircuit

\* lastOp: op the handler, d and id the Deferred and circuit it concerned,
\* arg the path argument, raised the exception it raised, sel how the path
\* was chosen, path the path sent to the daemon, hit whether the circuit
\* was found in self.waiting_circuits, purpose the circuit.purpose of an event.
Op(op, d, id, arg, raised, sel, path, hit, purpose) ==
    [op |-> op, d |-> d, id |-> id, arg |-> arg, raised |-> raised,
     sel |-> sel, path |-> path, hit |-> hit, purpose |-> purpose]

\* self.waiting_circuits.pop(0) in place of remove(x): the oldest entry goes.
list_remove_oldest(l, x) == IF l = <<>> THEN <<>> ELSE Tail(l)

\* list.remove(x): drop the first element equal to x.
RECURSIVE list_remove(_, _)
list_remove(l, x) ==
    IF l = <<>> THEN <<>>
    ELSE IF Head(l) = x THEN Tail(l)
    ELSE <<Head(l)>> \o list_remove(Tail(l), x)

\* CustomCircuit.waiting_on
waiting_on(wc, circid) == \E i \in 1..Len(wc) : wc[i][1] = circid

\* state.relays_remaining(): how many relays the seeded pool still holds.
relays_remaining(pool) == Len(pool)

\* pop_relays with pop(0) in place of pop(): relays leave from the front.
RECURSIVE pop_relays_front(_, _, _)
pop_relays_front(pool, n, got) ==
    IF n = 0 THEN [raised |-> "none", relays |-> pool, path |-> got]
    ELSE IF pool = <<>> THEN [raised |-> "IndexError", relays |-> pool, path |-> <<>>]
    ELSE pop_relays_front(Tail(pool), n - 1, Append(got, Head(pool)))

\* (self.state.relays.pop() for i in range(3)) unpacked into three names:
\* pop() takes the last element; popping an empty list raises IndexError
\* after the earlier pops have already shortened the list.
RECURSIVE pop_relays(_, _, _)
pop_relays(pool, n, got) ==
    IF n = 0 THEN [raised |-> "none", relays |-> pool, path |-> got]
    ELSE IF pool = <<>> THEN [raised |-> "IndexError", relays |-> pool, path |-> <<>>]
    ELSE pop_relays(SubSeq(pool, 1, Len(pool) - 1), n - 1, Append(got, pool[Len(pool)]))

\* select_path with the length check off by one (len(path) >= 2).
select_path_two_hops(pool, arg, choice) ==
    IF ~arg.given
    THEN IF relays_remaining(pool) > 0
         THEN [sel |-> "pool"] @@ pop_relays(pool, 3, <<>>)
         ELSE [sel |-> "random", raised |-> "none", relays |-> pool, path |-> choice]
    ELSE IF Len(arg.hops) >= 2
         THEN [sel |-> "given", raised |-> "none", relays |-> pool, path |-> arg.hops]
         ELSE [sel |-> "given", raised |-> "AssertionError", relays |-> pool, path |-> <<>>]

\* The path selection and validation of request_circuit_build; `choice` is
\* what random.choice would return for the three hops.
select_path(pool, arg, choice) ==
    IF ~arg.given
    THEN IF relays_remaining(pool) > 0
         THEN [sel |-> "pool"] @@ pop_relays(pool, 3, <<>>)
         ELSE [sel |-> "random", raised |-> "none", relays |-> pool, path |-> choice]
    ELSE IF Len(arg.hops) >= 3
         THEN [sel |-> "given", raised |-> "none", relays |-> pool, path |-> arg.hops]
         ELSE [sel |-> "given", raised |-> "AssertionError", relays |-> pool, path |-> <<>>]

RandomPaths == {<<g, m, l>> : g \in EntryGuards, m \in Routers, l \in Routers}

\* random.choice is called only when no path is given.
Choices(arg) == IF arg.given THEN {<<>>} ELSE RandomPaths

\* request_circuit_build(deferred, path): select or validate the path, then
\* send the build command; AppendWaiting and log.err wait for the answer.
request_circuit_build(op, id, d, arg, choice, wc) ==
    LET r == select_path(relays, arg, choice) IN
    /\ relays' = r.relays
    /\ waiting_circuits' = wc
    /\ lastOp' = Op(op, d, id, arg, r.raised, r.sel, r.path, op = "failed", "none")
    /\ IF r.raised = "none"
       THEN /\ cmds' = Append(cmds, [d |-> d, circ |-> 0])
            /\ issued' = issued + 1
            /\ requested' = requested \cup {d}
       ELSE UNCHANGED <<cmds, issued, requested>>

\* A caller creates a Deferred and calls request_circuit_build.
RequestCircuit(arg, choice) ==
    /\ ~closed
    /\ nextFut <= MaxFut
    /\ nextFut' = nextFut + 1
    /\ request_circuit_build("request", 0, nextFut, arg, choice, waiting_circuits)
    /\ UNCHANGED <<nextId, callbacks, closed>>
    /\ UNCHANGED early
    /\ UNCHANGED <<startVars, guardVars>>

\* The daemon takes the oldest build command and launches a circuit for it;
\* from here on it may report events for that circuit.
DaemonLaunch ==
    /\ ~closed
    /\ cmds # <<>>
    /\ Head(cmds).circ = 0
    /\ nextId <= MaxCirc
    /\ cmds' = <<[Head(cmds) EXCEPT !.circ = nextId]>> \o Tail(cmds)
    /\ nextId' = nextId + 1
    /\ lastOp' = Op("launch", Head(cmds).d, nextId, NoPath, "none", "none", <<>>, FALSE, "none")
    /\ UNCHANGED <<waiting_circuits, relays, issued, nextFut, requested, callbacks, closed>>
    /\ UNCHANGED early
    /\ UNCHANGED <<startVars, guardVars>>

\* AppendWaiting attached twice to the build command's Deferred.
AppendWaiting_twice(wc, circid, d) == Append(Append(wc, <<circid, d>>), <<circid, d>>)

\* AppendWaiting.__call__(circ): the build command returned a Circuit.
AppendWaiting__call__(wc, circid, d) == Append(wc, <<circid, d>>)

BuildAcknowledged ==
    /\ ~closed
    /\ cmds # <<>>
    /\ Head(cmds).circ # 0
    /\ waiting_circuits' = AppendWaiting__call__(waiting_circuits, Head(cmds).circ, Head(cmds).d)
    /\ cmds' = Tail(cmds)
    /\ lastOp' = Op("ack", Head(cmds).d, Head(cmds).circ, NoPath, "none", "none", <<>>, FALSE, "none")
    /\ UNCHANGED <<relays, issued, nextId, nextFut, requested, callbacks, closed>>
    /\ UNCHANGED early
    /\ UNCHANGED <<startVars, guardVars>>

\* The build command failed: the errback is log.err, nothing else.
BuildRejected ==
    /\ ~closed
    /\ cmds # <<>>
    /\ Head(cmds).circ = 0
    /\ cmds' = Tail(cmds)
    /\ lastOp' = Op("reject", Head(cmds).d, 0, NoPath, "none", "none", <<>>, FALSE, "none")
    /\ UNCHANGED <<waiting_circuits, relays, issued, nextId, nextFut, requested, callbacks, closed>>
    /\ UNCHANGED early
    /\ UNCHANGED <<startVars, guardVars>>

\* The daemon has launched the circuit for a build command whose answer
\* AppendWaiting has not seen yet.
launched_unrecorded(circid) == \E i \in 1..Len(cmds) : cmds[i].circ = circid

\* circuit_extend taking the first extension of a pending circuit for its
\* completion and dropping the entry.
circuit_extend_drops_entry(wc, circid, purpose) ==
    IF purpose = "GENERAL" /\ waiting_on(wc, circid)
    THEN SelectSeq(wc, LAMBDA e : e[1] # circid)
    ELSE wc

\* CustomCircuit.circuit_extend: self.waiting_circuits after the handler,
\* which returns for another purpose and otherwise only logs.
circuit_extend(wc, circid, purpose) ==
    IF purpose # "GENERAL" THEN wc
    ELSE IF waiting_on(wc, circid) THEN wc
    ELSE wc

CircuitExtend(circid, purpose) ==
    /\ ~closed
    /\ circid < nextId
    /\ waiting_circuits' = circuit_extend(waiting_circuits, circid, purpose)
    /\ lastOp' = Op("extend", 0, circid, NoPath, "none", "none", <<>>,
                    purpose = "GENERAL" /\ waiting_on(waiting_circuits, circid), purpose)
    /\ UNCHANGED <<relays, cmds, issued, nextId, nextFut, requested, callbacks, closed>>
    /\ UNCHANGED early
    /\ UNCHANGED <<startVars, guardVars>>

\* The loop of circuit_built over self.waiting_circuits, which it shortens
\* while iterating: i is the iterator's position, ds the Deferreds fired.
RECURSIVE built_loop(_, _, _, _)
built_loop(wc, i, circid, ds) ==
    IF i > Len(wc) THEN [wc |-> wc, ds |-> ds]
    ELSE IF wc[i][1] = circid
         THEN built_loop(list_remove(wc, wc[i]), i + 1, circid, Append(ds, wc[i][2]))
         ELSE built_loop(wc, i + 1, circid, ds)

\* circuit_built without its self.waiting_circuits.remove((circid, d)).
circuit_built_keeps_entry(wc, circid, purpose) ==
    IF purpose # "GENERAL" THEN [wc |-> wc, ds |-> <<>>]
    ELSE [wc |-> wc, ds |-> built_loop(wc, 1, circid, <<>>).ds]

\* circuit_built without its check of circuit.purpose.
circuit_built_any_purpose(wc, circid, purpose) == built_loop(wc, 1, circid, <<>>)

\* CustomCircuit.circuit_built
circuit_built(wc, circid, purpose) ==
    IF purpose # "GENERAL" THEN [wc |-> wc, ds |-> <<>>]
    ELSE built_loop(wc, 1, circid, <<>>)

RECURSIVE fire(_, _, _)
fire(cbs, ds, circid) ==
    IF ds = <<>> THEN cbs
    ELSE fire([cbs EXCEPT ![Head(ds)] = Append(@, circid)], Tail(ds), circid)

CircuitBuilt(circid, purpose) ==
    LET r == circuit_built(waiting_circuits, circid, purpose) IN
    /\ ~closed
    /\ circid < nextId
    /\ waiting_circuits' = r.wc
    /\ callbacks' = fire(callbacks, r.ds, circid)
    /\ lastOp' = Op("built", IF r.ds = <<>> THEN 0 ELSE r.ds[1], circid, NoPath,
                    "none", "none", <<>>, r.ds # <<>>, purpose)
    /\ UNCHANGED <<relays, cmds, issued, nextId, nextFut, requested, closed>>
    /\ early' = IF purpose = "GENERAL" /\ launched_unrecorded(circid)
                 THEN early \cup {circid}
                 ELSE IF r.ds # <<>> THEN early \ {circid} ELSE early
    /\ UNCHANGED <<startVars, guardVars>>

\* The entry circuit_failed picks: the last one whose id matches.
failed_entry(wc, circid) ==
    wc[CHOOSE i \in 1..Len(wc) :
         /\ wc[i][1] = circid
         /\ \A j \in (i + 1)..Len(wc) : wc[j][1] # circid]

\* circuit_failed without its self.waiting_circuits.remove((circid, d)).
circuit_failed_keeps_entry(wc, c) == wc

\* circuit_failed: self.waiting_circuits.remove((circid, d))
circuit_failed_remove(wc, c) == list_remove(wc, c)

\* A Deferred that is None; callers pass Deferreds, numbered from 1.
None == 0

\* CustomCircuit.circuit_failed: nothing happens unless waiting_on(circuit);
\* the raise is reached only for an entry whose Deferred is None.
CircuitFailed(circid, choice) ==
    /\ ~closed
    /\ circid < nextId
    /\ IF waiting_on(waiting_circuits, circid)
       THEN LET c == failed_entry(waiting_circuits, circid) IN
            IF c[2] = None
            THEN /\ lastOp' = Op("failed", 0, circid, NoPath, "Exception", "none", <<>>,
                                 TRUE, "none")
                 /\ UNCHANGED <<waiting_circuits, relays, cmds, issued, requested>>
            ELSE request_circuit_build("failed", circid, c[2], NoPath, choice,
                                       circuit_failed_remove(waiting_circuits, c))
       ELSE /\ lastOp' = Op("failed", 0, circid, NoPath, "none", "none", <<>>, FALSE, "none")
            /\ UNCHANGED <<waiting_circuits, relays, cmds, issued, requested>>
    /\ UNCHANGED <<nextId, nextFut, callbacks, closed>>
    /\ early' = IF launched_unrecorded(circid) THEN early \cup {circid}
                 ELSE early \ {circid}
    /\ UNCHANGED <<startVars, guardVars>>

\* The session is torn down.  CustomCircuit has no handler for it: the
\* table and the Deferreds stay as they are.
SessionTeardown ==
    /\ ~closed
    /\ closed' = TRUE
    /\ lastOp' = Op("teardown", 0, 0, NoPath, "none", "none", <<>>, FALSE, "none")
    /\ UNCHANGED <<waiting_circuits, relays, cmds, issued, nextId, nextFut, requested,
                   callbacks>>
    /\ UNCHANGED early
    /\ UNCHANGED <<startVars, guardVars>>

Purposes == {"GENERAL", "CONTROLLER"}

\* ---------------------------------------------------------------- start_tor

\* Temporary paths: the mkdtemp directory of an attempt and its torrc; tmp
\* says whether the torrc lies inside that temporary directory.
TmpDir(a) == [a |-> a, kind |-> "dir", tmp |-> TRUE]
Torrc(a, tmp) == [a |-> a, kind |-> "torrc", tmp |-> tmp]
Inside(p, dir) == dir.kind = "dir" /\ p.kind = "torrc" /\ p.tmp /\ p.a = dir.a

DataDirs == {"None", "given"}

\* write_torrc(conf, data_dir): what it creates and what it returns.
write_torrc(a, data_dir) ==
    IF data_dir = "None"
    THEN [created |-> {TmpDir(a), Torrc(a, TRUE)},
          torrc |-> Torrc(a, TRUE),
          delete_list |-> <<TmpDir(a), Torrc(a, TRUE)>>]
    ELSE [created |-> {Torrc(a, FALSE)},
          torrc |-> Torrc(a, FALSE),
          delete_list |-> <<Torrc(a, FALSE)>>]

\* unlink(temp) removes an existing plain file and raises OSError otherwise;
\* then rmtree(temp, ignore_errors=True) removes a directory with all it holds.
RECURSIVE delete_files_or_dirs(_, _)
delete_files_or_dirs(delete_list, disk) ==
    IF delete_list = <<>> THEN disk
    ELSE LET temp == Head(delete_list) IN
         delete_files_or_dirs(Tail(delete_list),
            IF temp \in disk /\ temp.kind # "dir"
            THEN disk \ {temp}
            ELSE {p \in disk : p # temp /\ ~Inside(p, temp)})

\* reactor.spawnProcess: a transport, or one of the exceptions it raises.
SpawnOutcomes == {"transport", "RuntimeError", "NotImplementedError", "OSError"}

\* The trigger registered only once spawnProcess has returned a transport.
start_tor_trigger_after_spawn(trigs, to_delete, spawn) ==
    IF spawn = "transport" THEN Append(trigs, to_delete) ELSE trigs

\* reactor.addSystemEventTrigger('before', 'shutdown', partial(...)) is
\* called before the try block, whatever spawnProcess will do.
start_tor_trigger(trigs, to_delete, spawn) == Append(trigs, to_delete)

\* The try block with the except clauses dropped to a bare log.err: the
\* exception is swallowed and connected_cb is left alone.
spawn_process_logs_only(spawn) ==
    [connected_cb |-> "unfired", propagated |-> spawn = "OSError"]

\* The try block around reactor.spawnProcess: RuntimeError and
\* NotImplementedError are caught and errback connected_cb; any other
\* exception leaves the generator.
spawn_process(spawn) ==
    [connected_cb |-> IF spawn \in {"RuntimeError", "NotImplementedError"}
                      THEN "errbacked" ELSE "unfired",
     propagated |-> spawn \notin {"transport", "RuntimeError", "NotImplementedError"}]

\* start_tor returning process_protocol right after the spawn, without
\* waiting for connected_cb.
start_tor_result_no_wait(connected_cb, propagated) ==
    IF propagated \/ connected_cb = "errbacked" THEN "failed" ELSE "ready"

\* `d = yield process_protocol.connected_cb; defer.returnValue(d)`: the
\* result of start_tor follows connected_cb; an exception that left the
\* generator has failed it already.
start_tor_result(connected_cb, propagated) ==
    IF propagated THEN "failed"
    ELSE IF connected_cb = "errbacked" THEN "failed"
    ELSE IF connected_cb = "fired" THEN "ready"
    ELSE "pending"

\* start_tor up to its `yield process_protocol.connected_cb`: a spawn that
\* raised RuntimeError or NotImplementedError has errbacked connected_cb, so
\* the yield raises at once; any other exception leaves the generator.
StartTor(data_dir, spawn) ==
    LET a == Len(attempts) + 1
        w == write_torrc(a, data_dir)
        sp == spawn_process(spawn)
    IN
    /\ ~shutdown
    /\ a <= MaxAttempts
    /\ fs' = fs \cup w.created
    /\ triggers' = start_tor_trigger(triggers, w.delete_list, spawn)
    /\ attempts' = Append(attempts,
          [data_dir |-> data_dir,
           to_delete |-> w.delete_list,
           spawn |-> spawn,
           progress |-> 0,
           stage |-> IF spawn = "transport" THEN "bootstrapping" ELSE "notspawned",
           connected_cb |-> sp.connected_cb,
           propagated |-> sp.propagated,
           result |-> start_tor_result(sp.connected_cb, sp.propagated)])
    /\ UNCHANGED shutdown
    /\ UNCHANGED <<circVars, guardVars>>

\* Bootstrap percentages the daemon reports.
Percents == {10, 50, 100}

\* TorProcessProtocol reports progress and fires connected_cb at 100%, which
\* resumes start_tor at its yield and makes it return.
BootstrapProgress(a, pct) ==
    /\ ~shutdown
    /\ a \in 1..Len(attempts)
    /\ attempts[a].stage = "bootstrapping"
    /\ pct > attempts[a].progress
    /\ attempts' = [attempts EXCEPT
          ![a].progress = pct,
          ![a].stage = IF pct = 100 THEN "ready" ELSE @,
          ![a].connected_cb = IF pct = 100 THEN "fired" ELSE @,
          ![a].result = start_tor_result(IF pct = 100 THEN "fired" ELSE attempts[a].connected_cb,
                                         attempts[a].propagated)]
    /\ UNCHANGED <<fs, triggers, shutdown>>
    /\ UNCHANGED <<circVars, guardVars>>

\* The daemon exits: TorProcessProtocol deletes process_protocol.to_delete
\* and, when connected_cb has not fired yet, errbacks it.
ProcessEnded(a) ==
    /\ ~shutdown
    /\ a \in 1..Len(attempts)
    /\ attempts[a].stage \in {"bootstrapping", "ready"}
    /\ fs' = delete_files_or_dirs(attempts[a].to_delete, fs)
    /\ attempts' = [attempts EXCEPT
          ![a].stage = "ended",
          ![a].connected_cb = IF @ = "unfired" THEN "errbacked" ELSE @,
          ![a].result = start_tor_result(
                 IF attempts[a].connected_cb = "unfired" THEN "errbacked"
                 ELSE attempts[a].connected_cb, attempts[a].propagated)]
    /\ UNCHANGED <<triggers, shutdown>>
    /\ UNCHANGED <<circVars, guardVars>>

RECURSIVE run_triggers(_, _)
run_triggers(trigs, disk) ==
    IF trigs = <<>> THEN disk
    ELSE run_triggers(Tail(trigs), delete_files_or_dirs(Head(trigs), disk))

\* The reactor shuts down and runs its 'before shutdown' triggers.
ReactorShutdown ==
    /\ ~shutdown
    /\ shutdown' = TRUE
    /\ fs' = run_triggers(triggers, fs)
    /\ UNCHANGED <<attempts, triggers>>
    /\ UNCHANGED <<circVars, guardVars>>

\* ------------------------------------------------------ singleton_semaphore

\* What is passed as deferred_process_init, and whether callbacks or
\* errbacks are passed with it.
InitKinds == {"deferred", "callable"}

\* One call of singleton_semaphore up to its yield.  Adding a callback to
\* something that is no Deferred raises AttributeError.  Each call makes its
\* own DeferredSemaphore(1), so acquire() succeeds at once; run() then calls
\* deferred_process_init, and calling a Deferred raises TypeError, which
\* maybeDeferred turns into a failure.
singleton_semaphore(kind, hooks) ==
    IF kind = "callable" /\ hooks
    THEN [tokens |-> 1, stage |-> "done", outcome |-> "AttributeError", invokes |-> FALSE]
    ELSE IF kind = "deferred"
    THEN [tokens |-> 1, stage |-> "done", outcome |-> "TypeError", invokes |-> FALSE]
    ELSE [tokens |-> 0, stage |-> "waiting", outcome |-> "none", invokes |-> TRUE]

SingletonSemaphore(kind, hooks) ==
    LET c == Len(calls) + 1
        r == singleton_semaphore(kind, hooks)
    IN
    /\ c <= MaxCallers
    /\ calls' = Append(calls, [kind |-> kind, hooks |-> hooks,
                               stage |-> r.stage, outcome |-> r.outcome])
    /\ only_once' = Append(only_once, r.tokens)
    /\ running' = IF r.invokes THEN running \cup {c} ELSE running
    /\ invoked' = IF r.invokes THEN invoked + 1 ELSE invoked
    /\ UNCHANGED <<circVars, startVars>>

InitOutcomes == {"result", "failure"}

\* The initializer a call started ends: the semaphore of that call is
\* released and the call returns the outcome.
InitializerDone(c, outcome) ==
    /\ c \in running
    /\ running' = running \ {c}
    /\ only_once' = [only_once EXCEPT ![c] = @ + 1]
    /\ calls' = [calls EXCEPT ![c].stage = "done", ![c].outcome = outcome]
    /\ UNCHANGED invoked
    /\ UNCHANGED <<circVars, startVars>>

\* ------------------------------------------------------------ specifications
\* CustomCircuit.__init__, with the pool the caller seeded.
InitCirc(pools) ==
    /\ waiting_circuits = <<>>
    /\ relays \in pools
    /\ cmds = <<>>
    /\ issued = 0
    /\ nextId = 1
    /\ nextFut = 1
    /\ requested = {}
    /\ callbacks = [f \in Futures |-> <<>>]
    /\ closed = FALSE
    /\ early = {}
    /\ lastOp = Op("init", 0, 0, NoPath, "none", "none", <<>>, FALSE, "none")

InitStart ==
    /\ fs = {}
    /\ attempts = <<>>
    /\ triggers = <<>>
    /\ shutdown = FALSE

InitGuard ==
    /\ calls = <<>>
    /\ only_once = <<>>
    /\ running = {}
    /\ invoked = 0

Init == InitCirc({SeededPool(n) : n \in 0..MaxPool}) /\ InitStart /\ InitGuard

\* The supervisor and the guard on their own: no controller at work.
InitNoCircuits == InitCirc({SeededPool(0)}) /\ InitStart /\ InitGuard

Next ==
    \/ \E arg \in PathArgs : \E choice \in Choices(arg) : RequestCircuit(arg, choice)
    \/ DaemonLaunch
    \/ BuildAcknowledged
    \/ BuildRejected
    \/ \E c \in CircIds, p \in Purposes : CircuitExtend(c, p)
    \/ \E c \in CircIds, p \in Purposes : CircuitBuilt(c, p)
    \/ \E c \in CircIds, choice \in RandomPaths : CircuitFailed(c, choice)
    \/ SessionTeardown

Spec == Init /\ [][Next]_vars

NextStart ==
    \/ \E dd \in DataDirs, sp \in SpawnOutcomes : StartTor(dd, sp)
    \/ \E a \in 1..MaxAttempts, pct \in Percents : BootstrapProgress(a, pct)
    \/ \E a \in 1..MaxAttempts : ProcessEnded(a)
    \/ ReactorShutdown

SpecStart == InitNoCircuits /\ [][NextStart]_vars

NextGuard ==
    \/ \E k \in InitKinds, h \in BOOLEAN : SingletonSemaphore(k, h)
    \/ \E c \in 1..MaxCallers, o \in InitOutcomes : InitializerDone(c, o)

SpecGuard == InitNoCircuits /\ [][NextGuard]_vars

\* ------------------------------------------------------------------- claims

InTable(f) == \E i \in 1..Len(waiting_circuits) : waiting_circuits[i][2] = f
InFlight(f) == \E i \in 1..Len(cmds) : cmds[i].d = f
\* No handler of CustomCircuit calls d.errback: a Deferred is settled only
\* by d.callback.
Settled(f) == callbacks[f] # <<>>

\* C1: whatever requests and extended/built/failed notifications arrive,
\* duplicated 'built' notifications included, d.callback is called at most
\* once on every caller's Deferred.
C1_ResolvedAtMostOnce == \A f \in Futures : Len(callbacks[f]) <= 1

\* A 'built' for a general-purpose circuit that already resolved a Deferred
\* arrives again and finds no entry.
C1_DuplicateBuiltSeen ==
    /\ lastOp.op = "built"
    /\ lastOp.purpose = "GENERAL"
    /\ ~lastOp.hit
    /\ \E f \in Futures : callbacks[f] = <<lastOp.id>>

\* C2: a 'failed' notification for a circuit in the pending table removes
\* the entry and issues exactly one new build command, with a path selected
\* anew, that carries the same Deferred, which stays unresolved.
C2_FailedRetriesOnce ==
    [][(lastOp'.op = "failed" /\ waiting_on(waiting_circuits, lastOp'.id)) =>
         /\ ~waiting_on(waiting_circuits', lastOp'.id)
         /\ Len(waiting_circuits') = Len(waiting_circuits) - 1
         /\ issued' = issued + 1
         /\ Len(cmds') = Len(cmds) + 1
         /\ cmds'[Len(cmds')].d = failed_entry(waiting_circuits, lastOp'.id)[2]
         /\ lastOp'.sel \in {"pool", "random"}
         /\ Len(lastOp'.path) = 3
         /\ callbacks' = callbacks]_vars

\* C3: no Deferred handed to request_circuit_build is dropped: as long as it
\* is not settled it is held by a pending-table entry or by a build command
\* still awaiting its answer (otherwise nothing can ever settle it).
C3_NeverSilentlyUnresolved ==
    \A f \in requested : Settled(f) \/ InTable(f) \/ InFlight(f)

\* C4: once the session is torn down the pending table is empty and no
\* requested Deferred is left unsettled.
C4_TeardownSettlesAll ==
    closed => /\ waiting_circuits = <<>>
              /\ \A f \in requested : Settled(f)

\* C5: a circuit identifier appears in at most one entry of
\* self.waiting_circuits.
C5_CircuitIdOnce ==
    \A i, j \in 1..Len(waiting_circuits) :
        i # j => waiting_circuits[i][1] # waiting_circuits[j][1]

\* Two requests are pending at once and at least one of them was retried.
C5_TwoPendingAfterRetry ==
    /\ Len(waiting_circuits) >= 2
    /\ issued > nextFut - 1

\* C6: a caller-supplied path of fewer than 3 hops makes
\* request_circuit_build raise at once (its assert), with no build command
\* sent and the pending table and the relay pool left as they were.
C6_ShortPathRejected ==
    [][(lastOp'.op = "request" /\ lastOp'.arg.given /\ Len(lastOp'.arg.hops) < 3) =>
         /\ lastOp'.raised = "AssertionError"
         /\ issued' = issued
         /\ cmds' = cmds
         /\ requested' = requested
         /\ waiting_circuits' = waiting_circuits
         /\ relays' = relays]_vars

\* A two-hop path was refused while a request was pending and the pool held
\* relays.
C6_ShortPathSeen ==
    /\ lastOp.op = "request"
    /\ lastOp.arg.given
    /\ Len(lastOp.arg.hops) = 2
    /\ lastOp.raised = "AssertionError"
    /\ waiting_circuits # <<>>
    /\ relays # <<>>

\* C7: without a path and with at least 3 relays in the pool, exactly the
\* last 3 relays leave the pool and form the path in pop order; the random
\* choice of a guard and two routers happens only when the pool is empty,
\* and leaves the pool alone.
C7_PoolDrainedInPopOrder ==
    [][(lastOp'.op \in {"request", "failed"} /\ lastOp'.sel \in {"pool", "random"}) =>
         LET n == Len(relays) IN
         /\ n >= 3 =>
              /\ lastOp'.sel = "pool"
              /\ lastOp'.raised = "none"
              /\ relays' = SubSeq(relays, 1, n - 3)
              /\ lastOp'.path = <<relays[n], relays[n - 1], relays[n - 2]>>
              /\ issued' = issued + 1
         /\ lastOp'.sel = "random" =>
              /\ relays = <<>>
              /\ relays' = relays
              /\ lastOp'.path \in RandomPaths
              /\ issued' = issued + 1]_vars

\* A path of three distinct relays was popped from a pool that still holds
\* a relay afterwards.
C7_PoolPathSeen ==
    /\ lastOp.sel = "pool"
    /\ lastOp.raised = "none"
    /\ Len(lastOp.path) = 3
    /\ lastOp.path[1] > lastOp.path[2]
    /\ lastOp.path[2] > lastOp.path[3]
    /\ relays # <<>>

\* C8: while one initialization is in flight no second initializer
\* invocation is started: the calls waiting at one time wait for one run.
C8_SingleInitialization == Cardinality(running) <= 1

\* C9: when start_tor's result has failed, no temporary path created for
\* that attempt is left on disk.
C9_FailedStartLeavesNothing ==
    \A a \in 1..Len(attempts) :
        attempts[a].result = "failed" => \A p \in fs : p.a # a

\* C10: after the reactor's shutdown, no path of any attempt's delete list
\* exists, whatever the attempt's outcome.
C10_ShutdownReclaimsAll ==
    shutdown =>
        \A a \in 1..Len(attempts) :
            \A i \in 1..Len(attempts[a].to_delete) : attempts[a].to_delete[i] \notin fs

\* Shutdown came after one attempt whose spawn raised and one that was still
\* bootstrapping, both with a temporary data directory.
C10_ShutdownAfterPartialAttempts ==
    /\ shutdown
    /\ \E a, b \in 1..Len(attempts) :
          /\ attempts[a].spawn = "NotImplementedError"
          /\ attempts[a].data_dir = "None"
          /\ attempts[b].result = "pending"
          /\ attempts[b].data_dir = "None"

\* C11: when reactor.spawnProcess raised, whatever it raised, start_tor's
\* result has failed: it is neither left pending nor a session; a caught
\* spawn failure reaches the caller through connected_cb, the Deferred a
\* bootstrap failure errbacks.
C11_SpawnFailureSurfaced ==
    \A a \in 1..Len(attempts) :
        attempts[a].spawn # "transport" =>
            /\ attempts[a].result = "failed"
            /\ attempts[a].spawn \in {"RuntimeError", "NotImplementedError"} =>
                   attempts[a].connected_cb = "errbacked"

\* One attempt failed because the platform cannot spawn, another because
\* the daemon exited while bootstrapping.
C11_SpawnAndBootstrapFailureSeen ==
    \E a, b \in 1..Len(attempts) :
        /\ attempts[a].spawn = "NotImplementedError"
        /\ attempts[a].result = "failed"
        /\ attempts[b].spawn = "transport"
        /\ attempts[b].stage = "ended"
        /\ attempts[b].result = "failed"
        /\ attempts[b].connected_cb = "errbacked"

\* C12: a 'failed' notification for a circuit the controller asked for that
\* is not in the pending table raises instead of being ignored.
C12_AbsentCircuitFailsLoudly ==
    (lastOp.op = "failed" /\ ~lastOp.hit) => lastOp.raised = "Exception"

\* C13: start_tor's result is a session only once a 100% bootstrap
\* notification has been delivered for that attempt.
C13_ReadyOnlyAtFullBootstrap ==
    \A a \in 1..Len(attempts) :
        attempts[a].result = "ready" => attempts[a].progress = 100

\* An attempt became ready after a partial progress report, while another
\* one is still bootstrapping below 100%.
C13_ReadyAndBootstrappingSeen ==
    \E a, b \in 1..Len(attempts) :
        /\ attempts[a].result = "ready"
        /\ attempts[a].progress = 100
        /\ attempts[b].result = "pending"
        /\ attempts[b].progress \in {10, 50}

\* C14: circuit_built for a circuit whose purpose is not GENERAL, or whose
\* identifier is not in the pending table, leaves the table as it is and
\* resolves no Deferred.
C14_BuiltFrame ==
    [][(lastOp'.op = "built"
        /\ (lastOp'.purpose # "GENERAL" \/ ~waiting_on(waiting_circuits, lastOp'.id))) =>
         /\ waiting_circuits' = waiting_circuits
         /\ callbacks' = callbacks
         /\ ~lastOp'.hit]_vars

\* A 'built' for a pending circuit arrived with another purpose and the
\* entry is still there.
C14_OtherPurposeBuiltSeen ==
    /\ lastOp.op = "built"
    /\ lastOp.purpose = "CONTROLLER"
    /\ waiting_on(waiting_circuits, lastOp.id)

\* C15: circuit_extend changes neither the pending table nor the relay
\* pool nor any Deferred nor the build commands, for every circuit and
\* purpose.
C15_ExtendFrame ==
    [][lastOp'.op = "extend" =>
         /\ waiting_circuits' = waiting_circuits
         /\ relays' = relays
         /\ callbacks' = callbacks
         /\ cmds' = cmds
         /\ issued' = issued
         /\ requested' = requested]_vars

\* An 'extended' notification arrived for a pending general-purpose
\* circuit.
C15_PendingExtendSeen ==
    /\ lastOp.op = "extend"
    /\ lastOp.hit
    /\ waiting_on(waiting_circuits, lastOp.id)

\* C16: a request is not left in the pending table once its circuit's
\* built or failed notification has been dispatched, also when that
\* notification came before AppendWaiting recorded the circuit.
C16_EarlyEventStillSettles ==
    \A i \in 1..Len(waiting_circuits) : waiting_circuits[i][1] \notin early

\* C17: request_circuit_build without a path, from a caller or as the
\* retry of circuit_failed, selects 3 relays and issues one build command
\* whatever the size of the pool.
C17_PathSelectedForEveryPool ==
    [][(lastOp'.op \in {"request", "failed"} /\ ~lastOp'.arg.given
        /\ (lastOp'.op = "failed" => lastOp'.hit)) =>
         /\ lastOp'.raised = "none"
         /\ Len(lastOp'.path) = 3
         /\ issued' = issued + 1
         /\ Len(cmds') = Len(cmds) + 1
         /\ cmds'[Len(cmds')].d = lastOp'.d]_vars

Holders(f) == {i \in 1..Len(waiting_circuits) : waiting_circuits[i][2] = f}

\* C18: every Deferred is held by at most one pending-table entry, and a
\* Deferred that has been resolved is held by none.
C18_FutureInOneEntry ==
    \A f \in Futures :
        /\ Cardinality(Holders(f)) <= 1
        /\ Settled(f) => Holders(f) = {}

\* The only request made so far was retried after a failure and its
\* Deferred is now held by the entry of the new circuit.
C18_RetriedFutureRecorded ==
    /\ lastOp.op = "ack"
    /\ requested = {lastOp.d}
    /\ issued >= 2
    /\ Holders(lastOp.d) # {}
    /\ waiting_circuits[CHOOSE i \in Holders(lastOp.d) : TRUE][1] = lastOp.id

OtherEntries(wc, circid) == SelectSeq(wc, LAMBDA e : e[1] # circid)
RegisteredUnder(wc, circid) == {wc[i][2] : i \in {j \in 1..Len(wc) : wc[j][1] = circid}}

\* C19: a 'built' or 'failed' notification for circuit X leaves every
\* entry with another identifier as it is, resolves no Deferred but the one
\* registered under X, and retries no other.
C19_OnlyOwnRequestAffected ==
    [][lastOp'.op \in {"built", "failed"} =>
         LET X == lastOp'.id
             mine == RegisteredUnder(waiting_circuits, X)
         IN
         /\ OtherEntries(waiting_circuits', X) = OtherEntries(waiting_circuits, X)
         /\ \A f \in Futures \ mine : callbacks'[f] = callbacks[f]
         /\ \A i \in (Len(cmds) + 1)..Len(cmds') : cmds'[i].d \in mine
         /\ SubSeq(cmds', 1, Len(cmds)) = cmds]_vars

\* A 'built' resolved one request while another one, registered before
\* it, stayed pending.
C19_BuiltBesideOtherEntrySeen ==
    /\ lastOp.op = "built"
    /\ lastOp.hit
    /\ waiting_circuits # <<>>
    /\ waiting_circuits[1][1] < lastOp.id

====
